---- MODULE Spec2Model ----
(***************************************************************************)
(* Model of src/common/Screen.js: the Screen layout component (render,     *)
(* defaultProps, the react-redux connection to the session's safe-area     *)
(* insets) and the URL opener that dispatches on Platform.OS.              *)
(*                                                                         *)
(* JavaScript values are modelled as strings: the booleans are "true" and  *)
(* "false", a missing prop is "undefined", a style object is the name of   *)
(* the object ("styles.padding", "componentStyles.content", ...).          *)
(* A React element is a record [type, props, children].                    *)
(***************************************************************************)
EXTENDS Naturals, Sequences, FiniteSets

VARIABLES
  ownProps,     \* the props the parent passes to the connected Screen
  store,        \* the global redux state (only the session slice is modelled)
  output,       \* the element tree returned by the latest Screen.render
  PlatformOS,   \* react-native's Platform.OS, fixed for the life of the process
  invoked,      \* the URLs the opener was called with, in call order
  nativeCalls,  \* the calls that reached native modules, in call order
  returned      \* what the latest call of the opener returned ("none" before any call)

vars == <<ownProps, store, output, PlatformOS, invoked, nativeCalls, returned>>

\* ---------------------------------------------------------------- bounds
MaxInset == 1
MaxCalls == 3

\* ---------------------------------------------------------------- values
Range(s) == {s[i] : i \in DOMAIN s}

\* JavaScript truthiness of a modelled value
Truthy(v) == v \notin {"false", "undefined", "null", ""}

\* JavaScript  a && b
And(a, b) == IF Truthy(a) THEN b ELSE a

OptBool == {"true", "false", "undefined"}

\* type Props, without safeAreaInsets (which connect supplies)
PropDomain ==
  [autoFocus |-> OptBool,
   centerContent |-> OptBool,
   children |-> {<<>>, <<"child">>},
   keyboardShouldPersistTaps |-> {"undefined", "never", "always", "handled"},
   padding |-> OptBool,
   search |-> OptBool,
   title |-> {"undefined", "Title"},
   scrollableContent |-> OptBool,
   style |-> {"undefined", "callerStyle"},
   searchBarOnChange |-> {"undefined", "onChange"}]

PropNames == DOMAIN PropDomain

OwnPropsSet ==
  [autoFocus : PropDomain.autoFocus,
   centerContent : PropDomain.centerContent,
   children : PropDomain.children,
   keyboardShouldPersistTaps : PropDomain.keyboardShouldPersistTaps,
   padding : PropDomain.padding,
   search : PropDomain.search,
   title : PropDomain.title,
   scrollableContent : PropDomain.scrollableContent,
   style : PropDomain.style,
   searchBarOnChange : PropDomain.searchBarOnChange]

\* this.context: the styling context
context == [styles |-> [screen |-> "styles.screen", padding |-> "styles.padding"]]

\* StyleSheet.create({wrapper, childrenWrapper, content})
componentStyles ==
  [wrapper |-> "componentStyles.wrapper",
   childrenWrapper |-> "componentStyles.childrenWrapper",
   content |-> "componentStyles.content"]

\* static defaultProps
defaultProps ==
  [autoFocus |-> "false",
   centerContent |-> "false",
   keyboardShouldPersistTaps |-> "handled",
   scrollableContent |-> "true"]

\* React resolves defaultProps: a prop that is undefined takes its default
ResolveDefaults(p) ==
  [k \in DOMAIN p |->
     IF k \in DOMAIN defaultProps /\ p[k] = "undefined" THEN defaultProps[k] ELSE p[k]]

\* ---------------------------------------------------------------- store
\* Dimensions; only the edges the module can be made to read are kept
Insets == [bottom : 0..MaxInset, top : 0..MaxInset]

StoreStates == {[session |-> [safeAreaInsets |-> i]] : i \in Insets}

\* the selector of ../selectors
getSession(state) == state.session

\* connect((state) => ({ safeAreaInsets: getSession(state).safeAreaInsets }))
mapStateToProps(state) == [safeAreaInsets |-> getSession(state).safeAreaInsets]

\* the props Screen.render sees: own props with defaults, overlaid by the
\* props connect derives from the store
MergedProps(own, state) ==
  LET d == ResolveDefaults(own)
      s == mapStateToProps(state)
  IN  [k \in (DOMAIN d) \cup (DOMAIN s) |-> IF k \in DOMAIN s THEN s[k] ELSE d[k]]

\* ---------------------------------------------------------------- render
Element(type, props, children) == [type |-> type, props |-> props, children |-> children]

RootStyle_top(props, ctx) ==
  <<ctx.styles.screen, [marginBottom |-> props.safeAreaInsets.top]>>

\* style={[styles.screen, { marginBottom: safeAreaInsets.bottom }]}
RootStyle(props, ctx) ==
  <<ctx.styles.screen, [marginBottom |-> props.safeAreaInsets.bottom]>>

NavBar_titleWins(props) ==
  IF Truthy(props.search) /\ ~Truthy(props.title)
    THEN Element("ModalSearchNavBar",
                 [autoFocus |-> props.autoFocus,
                  searchBarOnChange |-> props.searchBarOnChange], <<>>)
    ELSE Element("ModalNavBar", [title |-> props.title], <<>>)

\* {search ? <ModalSearchNavBar .../> : <ModalNavBar title={title} />}
NavBar(props) ==
  IF Truthy(props.search)
    THEN Element("ModalSearchNavBar",
                 [autoFocus |-> props.autoFocus,
                  searchBarOnChange |-> props.searchBarOnChange], <<>>)
    ELSE Element("ModalNavBar", [title |-> props.title], <<>>)

\* {scrollableContent ? <ScrollView ...>{children}</ScrollView>
\*                    : <View style={componentStyles.childrenWrapper}>{children}</View>}
Content(props) ==
  IF Truthy(props.scrollableContent)
    THEN Element("ScrollView",
                 [contentContainerStyle |->
                    <<And(props.centerContent, componentStyles.content), props.style>>,
                  style |-> componentStyles.childrenWrapper,
                  keyboardShouldPersistTaps |-> props.keyboardShouldPersistTaps],
                 props.children)
    ELSE Element("View", [style |-> componentStyles.childrenWrapper], props.children)

\* <KeyboardAvoider behavior="padding" style={...} contentContainerStyle={...}>
KeyboardAvoider(props, ctx) ==
  Element("KeyboardAvoider",
          [behavior |-> "padding",
           style |-> <<componentStyles.wrapper, And(props.padding, ctx.styles.padding)>>,
           contentContainerStyle |-> <<And(props.padding, ctx.styles.padding)>>],
          <<Content(props)>>)

render_noticeAfterContent(props, ctx) ==
  Element("View",
          [style |-> RootStyle(props, ctx)],
          IF Truthy(props.search)
            THEN <<Element("ZulipStatusBar", <<>>, <<>>),
                   NavBar(props),
                   KeyboardAvoider(props, ctx),
                   Element("OfflineNotice", <<>>, <<>>)>>
            ELSE <<Element("ZulipStatusBar", <<>>, <<>>),
                   NavBar(props),
                   Element("OfflineNotice", <<>>, <<>>),
                   KeyboardAvoider(props, ctx)>>)

\* Screen.render
render(props, ctx) ==
  Element("View",
          [style |-> RootStyle(props, ctx)],
          <<Element("ZulipStatusBar", <<>>, <<>>),
            NavBar(props),
            Element("OfflineNotice", <<>>, <<>>),
            KeyboardAvoider(props, ctx)>>)

\* what the connected component shows for given own props and store state
Rendered(own, state) == render(MergedProps(own, state), context)

\* ---------------------------------------------------------------- URL opener
Platforms == {"ios", "android", "windows", "web"}
SupportedPlatforms == {"ios", "android"}
URLs == {"https://a.example/", "https://b.example/x?y=1", ""}

NativeCall(module, method, args) == [module |-> module, method |-> method, args |-> args]

openURL_bothApis(os, url) ==
  IF os = "ios"
    THEN <<NativeCall("SafariView", "show", <<[url |-> url]>>)>>
    ELSE <<NativeCall("SafariView", "show", <<[url |-> url]>>),
           NativeCall("CustomTabsAndroid", "openURL", <<url>>)>>

openURL_androidOnly(os, url) ==
  IF os = "ios"
    THEN <<NativeCall("SafariView", "show", <<[url |-> url]>>)>>
    ELSE IF os = "android"
      THEN <<NativeCall("CustomTabsAndroid", "openURL", <<url>>)>>
      ELSE <<>>

\* export default (url: string): void => { if (Platform.OS === 'ios') ... else ... }
\* the native calls one call of the opener makes, in order
openURL(os, url) ==
  IF os = "ios"
    THEN <<NativeCall("SafariView", "show", <<[url |-> url]>>)>>
    ELSE <<NativeCall("CustomTabsAndroid", "openURL", <<url>>)>>

\* ---------------------------------------------------------------- Screen specification
\* the Screen is mounted by a parent that passes no optional prop, before the
\* safe area has been measured
ScreenMounted ==
  /\ ownProps = [k \in PropNames |-> IF k = "children" THEN <<>> ELSE "undefined"]
  /\ store = [session |-> [safeAreaInsets |-> [bottom |-> 0, top |-> 0]]]
  /\ output = Rendered(ownProps, store)

\* the opener has not been called
OpenerIdle ==
  /\ invoked = <<>>
  /\ nativeCalls = <<>>
  /\ returned = "none"

Init ==
  /\ ScreenMounted
  /\ PlatformOS = "android"
  /\ OpenerIdle

\* the parent re-renders the Screen with one prop changed
ParentRender(k, v) ==
  /\ ownProps' = [ownProps EXCEPT ![k] = v]
  /\ output' = Rendered(ownProps', store)
  /\ UNCHANGED <<store, PlatformOS, invoked, nativeCalls, returned>>

\* the store's state changes; connect recomputes mapStateToProps and Screen
\* renders again with the new safeAreaInsets
StoreUpdate(s) ==
  /\ s # store
  /\ store' = s
  /\ output' = Rendered(ownProps, store')
  /\ UNCHANGED <<ownProps, PlatformOS, invoked, nativeCalls, returned>>

Next ==
  \/ \E k \in PropNames : \E v \in PropDomain[k] : ParentRender(k, v)
  \/ \E s \in StoreStates : StoreUpdate(s)

Spec == Init /\ [][Next]_vars

\* ---------------------------------------------------------------- opener specification
InitOpenURL ==
  /\ ScreenMounted
  /\ PlatformOS \in Platforms
  /\ OpenerIdle

\* one call of the opener: the native calls are made, their results are
\* dropped, and the arrow function's block body ends without a return
CallOpenURL(url) ==
  /\ Len(invoked) < MaxCalls
  /\ invoked' = Append(invoked, url)
  /\ nativeCalls' = nativeCalls \o openURL(PlatformOS, url)
  /\ returned' = "undefined"
  /\ UNCHANGED <<ownProps, store, output, PlatformOS>>

NextOpenURL == \E url \in URLs : CallOpenURL(url)

SpecOpenURL == InitOpenURL /\ [][NextOpenURL]_vars

\* ---------------------------------------------------------------- properties
\* the native call the opener is documented to make for a URL on a platform
ExpectedNativeCall(os, url) ==
  IF os = "ios"
    THEN [module |-> "SafariView", method |-> "show", args |-> <<[url |-> url]>>]
    ELSE [module |-> "CustomTabsAndroid", method |-> "openURL", args |-> <<url>>]

\* C1: every call of the opener makes exactly one native call, carrying the
\* URL it was given: SafariView.show({url}) on 'ios' and
\* CustomTabsAndroid.openURL(url) on every other platform; never both, never
\* repeated, and the opener returns undefined.
C1_OneNativeCallPerOpen ==
  /\ Len(nativeCalls) = Len(invoked)
  /\ \A i \in DOMAIN invoked :
       /\ nativeCalls[i].module = ExpectedNativeCall(PlatformOS, invoked[i]).module
       /\ nativeCalls[i].method = ExpectedNativeCall(PlatformOS, invoked[i]).method
       /\ nativeCalls[i].args = ExpectedNativeCall(PlatformOS, invoked[i]).args
  /\ returned = IF invoked = <<>> THEN "none" ELSE "undefined"

C1_Witness ==
  /\ PlatformOS = "ios"
  /\ Len(invoked) >= 2
  /\ invoked[1] # invoked[2]
  /\ nativeCalls[2] = ExpectedNativeCall("ios", invoked[2])

NavBarTypes == {"ModalSearchNavBar", "ModalNavBar"}

\* the positions of the navigation bars among the children of the root
NavBarsOf(tree) == {i \in DOMAIN tree.children : tree.children[i].type \in NavBarTypes}

\* C2: the output has exactly one navigation bar. With search truthy it is
\* ModalSearchNavBar with autoFocus and searchBarOnChange, and the title does
\* not influence the output; otherwise it is ModalNavBar with the title, and
\* autoFocus and searchBarOnChange do not influence the output.
C2_OneNavBarChosenBySearch ==
  LET p == MergedProps(ownProps, store)
      bars == NavBarsOf(output)
  IN  /\ Cardinality(bars) = 1
      /\ \A i \in bars :
           IF Truthy(ownProps.search)
             THEN /\ output.children[i].type = "ModalSearchNavBar"
                  /\ output.children[i].props =
                       [autoFocus |-> p.autoFocus,
                        searchBarOnChange |-> ownProps.searchBarOnChange]
                  /\ output = Rendered([ownProps EXCEPT !.title = "undefined"], store)
             ELSE /\ output.children[i].type = "ModalNavBar"
                  /\ output.children[i].props = [title |-> ownProps.title]
                  /\ output = Rendered([ownProps EXCEPT !.autoFocus = "undefined",
                                                        !.searchBarOnChange = "undefined"],
                                       store)

C2_Witness ==
  /\ ownProps.search = "true"
  /\ ownProps.title = "Title"
  /\ ownProps.autoFocus = "true"
  /\ ownProps.searchBarOnChange = "onChange"
  /\ output.children[2].type = "ModalSearchNavBar"

\* C3: whatever the props, the root is a View whose children are, in order,
\* the status bar, one navigation bar, the offline notice and the
\* KeyboardAvoider, and the KeyboardAvoider holds one container with the
\* children passed by the caller.
C3_FixedLayout ==
  /\ output.type = "View"
  /\ Len(output.children) = 4
  /\ output.children[1].type = "ZulipStatusBar"
  /\ output.children[2].type \in NavBarTypes
  /\ output.children[3].type = "OfflineNotice"
  /\ output.children[4].type = "KeyboardAvoider"
  /\ Len(output.children[4].children) = 1
  /\ output.children[4].children[1].type \in {"ScrollView", "View"}
  /\ output.children[4].children[1].children = ownProps.children

C3_Witness ==
  /\ ownProps.search = "true"
  /\ ownProps.scrollableContent = "false"
  /\ ownProps.padding = "true"
  /\ ownProps.centerContent = "true"
  /\ ownProps.children # <<>>
  /\ output.children[4].children[1].type = "View"

\* the styles carried by the container that directly holds the children
ContainerStyles(el) ==
  IF el.type = "ScrollView"
    THEN Range(el.props.contentContainerStyle) \cup {el.props.style}
    ELSE {el.props.style}

\* C4: the container that directly holds the children carries
\* componentStyles.content exactly when centerContent is true, whatever the
\* other props are (scrollableContent false included).
C4_CenterContentCenters ==
  (MergedProps(ownProps, store).centerContent = "true")
    <=> (componentStyles.content \in ContainerStyles(output.children[4].children[1]))

\* C5: a style passed by the caller is in the style list of the wrapper
\* container, the element styled with componentStyles.wrapper (the
\* KeyboardAvoider), whatever the other props are.
C5_StyleOnWrapper ==
  /\ componentStyles.wrapper \in Range(output.children[4].props.style)
  /\ ownProps.style # "undefined" =>
       ownProps.style \in Range(output.children[4].props.style)

\* C6 as stated: on a platform that is neither 'ios' nor 'android' no coded
\* branch applies and neither native browser API is selected.
C6_NoApiForUnsupported ==
  PlatformOS \notin SupportedPlatforms => nativeCalls = <<>>

\* C6 as amended: the opener defines no error outcome, and on a platform that
\* is neither 'ios' nor 'android' the else branch applies: every call of the
\* opener selects CustomTabsAndroid.openURL(url), and never SafariView.
C6_ElseBranchTakesUnsupported ==
  /\ returned \in {"none", "undefined"}
  /\ PlatformOS \notin SupportedPlatforms =>
       /\ Len(nativeCalls) = Len(invoked)
       /\ \A i \in DOMAIN nativeCalls :
            /\ nativeCalls[i].module = "CustomTabsAndroid"
            /\ nativeCalls[i].method = "openURL"
            /\ nativeCalls[i].args = <<invoked[i]>>

C6_Witness ==
  /\ PlatformOS = "windows"
  /\ Len(invoked) >= 1
  /\ nativeCalls[1].module = "CustomTabsAndroid"
  /\ returned = "undefined"

\* the marginBottom of the root container of a rendered tree
RootMarginBottom(tree) == tree.props.style[2].marginBottom

\* C7: in every state the root container's marginBottom is the bottom inset
\* the store's session holds now, and a step in which the Screen is rendered
\* with new props leaves the store as it was.
C7_MarginFollowsStore ==
  /\ [](RootMarginBottom(output) = getSession(store).safeAreaInsets.bottom)
  /\ [][ownProps' # ownProps => store' = store]_vars

C7_Witness ==
  /\ getSession(store).safeAreaInsets.bottom = 1
  /\ getSession(store).safeAreaInsets.top = 0
  /\ RootMarginBottom(output) = 1
  /\ ownProps.search = "true"

====
